---- MODULE Spec2Model ----
(***************************************************************************)
(* Model of src/src/lab02/linalg_interp.py: gauss_iter_solve (stationary   *)
(* Jacobi / Gauss-Seidel iteration) and spline_function (piecewise         *)
(* polynomial interpolation of order 1, 2 or 3).                           *)
(*                                                                         *)
(* One behaviour of the model is one call of one of the two functions.     *)
(* Init draws the arguments of the call; the actions are the consecutive   *)
(* sections of the function body.  Arrays are 1-indexed sequences; an      *)
(* index the code computes (k, k_sort) is kept 0-based as in the code and  *)
(* shifted by one where it subscripts a sequence.                          *)
(*                                                                         *)
(* Numbers.  The solver runs on integer systems whose normalized form is   *)
(* integral, where float64 arithmetic is exact; eps_a, a quotient of two   *)
(* Euclidean norms, is held as the pair of squared norms together with the *)
(* IEEE outcome of the division (finite, inf, nan).  The spline runs on    *)
(* exact rationals <<numerator, denominator>>.                             *)
(***************************************************************************)
EXTENDS Integers, Sequences, FiniteSets, TLC

VARIABLES
    call,      \* which function this behaviour calls
    pc,        \* position in the function body
    raised,    \* exception raised to the caller, "none" while there is none
    returned,  \* value handed to the caller by a return statement
    \* ---- gauss_iter_solve
    A, b, x0, tol, alg,            \* arguments
    x, x_old, A_star, b_star, A_s, \* locals
    N, eps_a,
    \* ---- spline_function
    xd_arg, yd_arg, order,         \* arguments, as the caller passed them
    xd, yd,                        \* the arrays bound to xd, yd at lines 91-92
    k_sort, a, dx, f1, coef_b,     \* locals (coef_b is the local named b)
    q, k, sval                     \* one evaluation of the returned closure

vars == << call, pc, raised, returned, A, b, x0, tol, alg, x, x_old, A_star,
           b_star, A_s, N, eps_a, xd_arg, yd_arg, order, xd, yd, k_sort, a,
           dx, f1, coef_b, q, k, sval >>

solverVars == << A, b, x0, tol, alg, x, x_old, A_star, b_star, A_s, N, eps_a >>
splineVars == << xd_arg, yd_arg, order, xd, yd, k_sort, a, dx, f1, coef_b,
                q, k, sval >>

\* Python's None, and the value of a local that is not yet assigned
None == << >>
NoArray == [shape |-> << >>, data |-> << >>]
NoMatrix == [shape |-> << >>, rows |-> << >>]
NoQuotient == [kind |-> "unset", p |-> 0, q |-> 0]

(***************************************************************************)
(* Bounds of the model.                                                    *)
(***************************************************************************)
MaxB == 1        \* right-hand sides of the solver have entries up to MaxB
MaxKnots == 3    \* sample sequences have 2..MaxKnots entries
MaxCoord == 3    \* x samples are drawn from 0..MaxCoord

(***************************************************************************)
(* Program constant: the iteration cap.                                    *)
(***************************************************************************)
max_iter == 100

(***************************************************************************)
(* Small vector arithmetic (numpy on 1-D float arrays, exact on integers). *)
(***************************************************************************)
RECURSIVE SeqSum(_)
SeqSum(s) == IF s = << >> THEN 0 ELSE Head(s) + SeqSum(Tail(s))

\* np.dot of two 1-D arrays of the same length
dot(u, v) == SeqSum([i \in 1..Len(u) |-> u[i] * v[i]])

\* np.linalg.norm(v) squared
norm2(v) == dot(v, v)

\* exact quotient n / d of integers, d # 0 dividing n
ExactDiv(n, d) == IF d > 0 THEN n \div d ELSE (0 - n) \div (0 - d)

(***************************************************************************)
(* gauss_iter_solve: arguments.                                            *)
(*   A   [shape |-> <<rows, cols>>, rows |-> sequence of rows]             *)
(*   b   [shape |-> <<n>> or <<n, 1>>, data |-> entries]                   *)
(*   x0  None or a list of numbers                                         *)
(*   tol <<numerator, denominator>>, a rational >= 0                       *)
(*   alg a string, held as its sequence of characters                      *)
(***************************************************************************)
Dims == {1, 2}
OffDiag == {-1, 0, 1}

\* the factors of the rows: all 1, or -2 for the first row and 1 for the rest
RowScales(n) == { [i \in 1..n |-> 1], [i \in 1..n |-> IF i = 1 THEN 0 - 2 ELSE 1] }

\* n x n systems: a unit-diagonal matrix with off-diagonal entries in
\* OffDiag, each row (and its right-hand side) scaled by its factor
SquareSystems ==
    UNION { { [A |-> [shape |-> <<n, n>>,
                      rows  |-> [i \in 1..n |-> [j \in 1..n |-> d[i] * M[i][j]]]],
               b |-> [shape |-> <<n>>, data |-> [i \in 1..n |-> d[i] * c[i]]]] :
              M \in { m \in [1..n -> [1..n -> OffDiag]] : \A i \in 1..n : m[i][i] = 1 },
              d \in RowScales(n),
              c \in [1..n -> (0 - MaxB)..MaxB] } : n \in Dims }

\* 3 x 3 systems whose middle row alone has off-diagonal entries, so that
\* one row of a sweep reads a component before it and a component after it
MiddleRowSystems ==
    { [A |-> [shape |-> <<3, 3>>,
              rows  |-> [i \in 1..3 |-> [j \in 1..3 |-> d[i] * M[i][j]]]],
       b |-> [shape |-> <<3>>, data |-> [i \in 1..3 |-> d[i] * c[i]]]] :
      M \in { m \in [1..3 -> [1..3 -> OffDiag]] :
                \A i, j \in 1..3 : /\ (i = j => m[i][j] = 1)
                                    /\ (i # 2 /\ i # j => m[i][j] = 0) },
      d \in RowScales(3),
      c \in [1..3 -> 0..MaxB] }

Ones(r, c) == [shape |-> <<r, c>>, rows |-> [i \in 1..r |-> [j \in 1..c |-> 1]]]

NonSquareShapes == { <<1, 2>>, <<2, 1>>, <<2, 3>>, <<3, 2>> }

NonSquareSystems ==
    { [A |-> Ones(s[1], s[2]),
       b |-> [shape |-> <<s[1]>>, data |-> [i \in 1..s[1] |-> c]]] :
      s \in NonSquareShapes, c \in 0..MaxB }

\* the same right-hand side handed over as an n x 1 column (2-dimensional)
AsColumn(v) == [shape |-> <<v.shape[1], 1>>,
                data |-> [i \in 1..v.shape[1] |-> << v.data[i] >>]]

Systems ==
    LET S == SquareSystems \cup MiddleRowSystems \cup NonSquareSystems
    IN  S \cup { [A |-> s.A, b |-> AsColumn(s.b)] : s \in S }

TolInputs == { <<0, 1>>, <<1, 1000>>, <<1, 1>> }

AlgInputs == { <<"s", "e", "i", "d", "e", "l">>,
               <<"j", "a", "c", "o", "b", "i">>,
               <<" ", "J", "a", "c", "o", "b", "I", " ">>,
               <<"g", "a", "u", "s", "s">> }

X0Inputs(n) == { None, [i \in 1..n |-> 1] }

(***************************************************************************)
(* str.strip() and str.lower() on character sequences.                     *)
(***************************************************************************)
Whitespace == { " ", "\t", "\n", "\r" }

UpperCase == <<"A", "B", "C", "D", "E", "F", "G", "H", "I", "J", "K", "L", "M",
               "N", "O", "P", "Q", "R", "S", "T", "U", "V", "W", "X", "Y", "Z">>
LowerCase == <<"a", "b", "c", "d", "e", "f", "g", "h", "i", "j", "k", "l", "m",
               "n", "o", "p", "q", "r", "s", "t", "u", "v", "w", "x", "y", "z">>

RECURSIVE lstrip(_)
lstrip(s) == IF s # << >> /\ Head(s) \in Whitespace THEN lstrip(Tail(s)) ELSE s

RECURSIVE rstrip(_)
rstrip(s) == IF s # << >> /\ s[Len(s)] \in Whitespace
             THEN rstrip(SubSeq(s, 1, Len(s) - 1)) ELSE s

strip(s) == rstrip(lstrip(s))

lower_char(c) == IF \E i \in 1..26 : UpperCase[i] = c
                 THEN LowerCase[CHOOSE i \in 1..26 : UpperCase[i] = c]
                 ELSE c

lower(s) == [i \in 1..Len(s) |-> lower_char(s[i])]

seidel == <<"s", "e", "i", "d", "e", "l">>
jacobi == <<"j", "a", "c", "o", "b", "i">>

(***************************************************************************)
(* gauss_iter_solve, lines 18-34: conversion of the arguments, the initial *)
(* guess and the three checks, in the order of the code.                   *)
(***************************************************************************)
ErrAlg == "ValueError: enter valid algorithm (seidel or jacobi)"
ErrSquare == "ValueError: A is not square"
ErrDimB == "ValueError: b dimensions, should be 1"
WarnConverge == "RuntimeWarning: The method did not converge"

\* `not x0`: None and the empty list are falsy
Falsy(v) == v = None \/ v = << >>

\* np.zeros_like(b)
zeros_like(v) ==
    IF Len(v.shape) = 1 THEN [i \in 1..v.shape[1] |-> 0]
    ELSE [i \in 1..v.shape[1] |-> [j \in 1..v.shape[2] |-> 0]]

\* lines 21-24
InitialGuess(guess, rhs) == IF Falsy(guess) THEN zeros_like(rhs) ELSE guess

\* variant: the dimension of b is checked before the shape of A
GaussCheck_DimFirst(algorithm, M, rhs) ==
    IF lower(strip(algorithm)) \notin {seidel, jacobi} THEN ErrAlg
    ELSE IF Len(rhs.shape) # 1 THEN ErrDimB
    ELSE IF M.shape[2] # M.shape[1] THEN ErrSquare ELSE "none"

\* lines 26-34: the error raised by the checks, "none" when all pass
GaussCheck(algorithm, M, rhs) ==
    IF lower(strip(algorithm)) \notin {seidel, jacobi} THEN ErrAlg
    ELSE LET n == M.shape[1]
         IN  IF M.shape[2] # n THEN ErrSquare
             ELSE LET dimb == Len(rhs.shape)
                  IN  IF dimb # 1 THEN ErrDimB ELSE "none"

(***************************************************************************)
(* gauss_iter_solve, lines 36-50: normalization by the diagonal.           *)
(***************************************************************************)
\* np.eye(n)
eye(n) == [i \in 1..n |-> [j \in 1..n |-> IF i = j THEN 1 ELSE 0]]

\* np.dot(np.diag(1.0/np.diag(A)), A): row i of A divided by A[i][i]
NormalizeMatrix(M) ==
    [i \in 1..M.shape[1] |->
        [j \in 1..M.shape[2] |-> ExactDiv(M.rows[i][j], M.rows[i][i])]]

\* np.dot(np.diag(1.0/np.diag(A)), b)
NormalizeVector(M, rhs) ==
    [i \in 1..M.shape[1] |-> ExactDiv(rhs.data[i], M.rows[i][i])]

\* A_star - identity
MatSub(P, Q) == [i \in 1..Len(P) |-> [j \in 1..Len(P[i]) |-> P[i][j] - Q[i][j]]]

(***************************************************************************)
(* eps_a.  The value np.linalg.norm(dx)/np.linalg.norm(x) is held as       *)
(* [kind, p, q] with p = |dx|^2 and q = |x|^2: kind "num" is the finite    *)
(* value sqrt(p/q); a zero divisor gives "inf" (p > 0) or "nan" (p = 0),   *)
(* as numpy's float64 division does.                                       *)
(***************************************************************************)
\* 2*tol
TwiceTol(t) == [kind |-> "num", p |-> 4 * t[1] * t[1], q |-> t[2] * t[2]]

\* np.linalg.norm(dx)/np.linalg.norm(x)
RelChange(d, v) ==
    [kind |-> IF norm2(v) # 0 THEN "num" ELSE IF norm2(d) # 0 THEN "inf" ELSE "nan",
     p |-> norm2(d), q |-> norm2(v)]

\* eps_a > tol (false for nan)
GT(e, t) == \/ e.kind = "inf"
            \/ e.kind = "num" /\ e.p * t[2] * t[2] > t[1] * t[1] * e.q

\* eps_a <= tol (false for nan)
LE(e, t) == e.kind = "num" /\ e.p * t[2] * t[2] <= t[1] * t[1] * e.q

(***************************************************************************)
(* gauss_iter_solve, lines 51-66: the two loops.                           *)
(***************************************************************************)
\* variant: the loop tests the cap alone
LoopCond_CapOnly(count, e, t) == count < max_iter

\* the condition of both while loops, lines 52 and 61
LoopCond(count, e, t) == count < max_iter /\ GT(e, t)

\* variant: every row is computed from the iterate before the sweep
SeidelSweep_Stale(cur, i, As, bs) ==
    [r \in 1..Len(cur) |->
        bs[r] - dot(SubSeq(As[r], 1, r - 1), SubSeq(cur, 1, r - 1))
              - dot(SubSeq(As[r], r + 1, Len(cur)), SubSeq(cur, r + 1, Len(cur)))]

\* lines 54-55, rows i..n of the in-place sweep over the rows of A_star
RECURSIVE SeidelSweep(_, _, _, _)
SeidelSweep(cur, i, As, bs) ==
    IF i > Len(As) THEN cur
    ELSE LET A_row == As[i]
             n == Len(cur)
             xi == bs[i] - dot(SubSeq(A_row, 1, i - 1), SubSeq(cur, 1, i - 1))
                         - dot(SubSeq(A_row, i + 1, n), SubSeq(cur, i + 1, n))
         IN  SeidelSweep([cur EXCEPT ![i] = xi], i + 1, As, bs)

\* line 63: x = b_star - A_s @ x (Am is A_s)
JacobiUpdate(cur, Am, bs) == [i \in 1..Len(cur) |-> bs[i] - dot(Am[i], cur)]

\* x - x_old
VecSub(u, v) == [i \in 1..Len(u) |-> u[i] - v[i]]

(***************************************************************************)
(* Exact rationals <<numerator, denominator>>, denominator > 0, in lowest  *)
(* terms: the float arithmetic of spline_function without rounding.        *)
(***************************************************************************)
abs(v) == IF v < 0 THEN 0 - v ELSE v

RECURSIVE gcd(_, _)
gcd(m, n) == IF n = 0 THEN m ELSE gcd(n, m % n)

Rat(n, d) ==
    LET s == IF d < 0 THEN 0 - 1 ELSE 1
        g == gcd(abs(n), abs(d))
    IN  << (s * n) \div g, (s * d) \div g >>

RAdd(u, v) == Rat(u[1] * v[2] + v[1] * u[2], u[2] * v[2])
RSub(u, v) == Rat(u[1] * v[2] - v[1] * u[2], u[2] * v[2])
RMul(u, v) == Rat(u[1] * v[1], u[2] * v[2])
RDiv(u, v) == Rat(u[1] * v[2], u[2] * v[1])
RLt(u, v) == u[1] * v[2] < v[1] * u[2]
RLe(u, v) == u[1] * v[2] <= v[1] * u[2]

(***************************************************************************)
(* spline_function: arguments.  xd and yd are lists of integers, order an  *)
(* integer; the closure is queried at multiples of 1/2.                    *)
(***************************************************************************)
XInputs == UNION { [1..n -> 0..MaxCoord] : n \in 2..MaxKnots }
YValues == {0, 1}
YInputs == UNION { [1..n -> YValues] : n \in 2..MaxKnots }
OrderInputs == {1, 2, 3, 4}
Queries == { Rat(h, 2) : h \in (0 - 1)..(2 * MaxCoord + 1) }

ErrLen == "ValueError: Data dimensions not equal"
ErrRepeat == "ValueError: Repetition of values in x data"
ErrBroadcast == "ValueError: could not broadcast input array"
ErrIndex == "IndexError: index out of bounds"
InvalidOrder == "ValueError: Invalid order, needs to be 1,2 or 3"

(***************************************************************************)
(* spline_function, lines 84-88: the two checks on the samples.            *)
(***************************************************************************)
RECURSIVE SortSet(_)
SortSet(S) ==
    IF S = {} THEN << >>
    ELSE LET m == CHOOSE v \in S : \A w \in S : v <= w
         IN  << m >> \o SortSet(S \ {m})

\* np.unique: the sorted distinct values
unique(s) == SortSet({ s[i] : i \in 1..Len(s) })

\* variant: the repetition check is missing
SplineCheck_NoUnique(xs, ys) == IF Len(xs) # Len(ys) THEN ErrLen ELSE "none"

SplineCheck(xs, ys) ==
    IF Len(xs) # Len(ys) THEN ErrLen
    ELSE LET xd_unique == unique(xs)
         IN  IF Len(xd_unique) # Len(xs) THEN ErrRepeat ELSE "none"

(***************************************************************************)
(* spline_function, lines 90-97: sorting and differencing.                 *)
(***************************************************************************)
\* np.argsort: 0-based indices in ascending order of value (equal values,
\* which line 87 excludes, in order of index)
argsort(s) ==
    [r \in 1..Len(s) |->
        (CHOOSE i \in 1..Len(s) :
            Cardinality({ j \in 1..Len(s) :
                            s[j] < s[i] \/ (s[j] = s[i] /\ j < i) }) = r - 1) - 1]

\* variant: the permutation is not applied
take_Unpermuted(s, ks) == [i \in 1..Len(ks) |-> Rat(s[i], 1)]

\* np.array([s[k] for k in k_sort]), as floats
take(s, ks) == [i \in 1..Len(ks) |-> Rat(s[ks[i] + 1], 1)]

\* np.diff
diff(s) == [i \in 1..(Len(s) - 1) |-> RSub(s[i + 1], s[i])]

\* s[:-1]
init(s) == SubSeq(s, 1, Len(s) - 1)

\* elementwise dy/dx
quot(u, v) == [i \in 1..Len(u) |-> RDiv(u[i], v[i])]

(***************************************************************************)
(* The closures s1, s2, s3: the interval index k (0-based, lines 102-104,  *)
(* 118-120, 139-141) and the value of s1 (line 105).                       *)
(***************************************************************************)
\* np.nonzero(xs < v)[0]: the 0-based indices i with xs[i] < v, ascending
nonzero_lt(xs, v) ==
    LET I == { i \in 1..Len(xs) : RLt(xs[i], v) }
    IN  [r \in 1..Cardinality(I) |-> SortSet(I)[r] - 1]

\* s[-1]
last(s) == s[Len(s)]

s1_k(v, xs, as) ==
    IF RLe(v, xs[1]) THEN 0
    ELSE IF RLe(last(xs), v) THEN Len(as) - 1
    ELSE last(nonzero_lt(xs, v))

s2_k(v, xs, as) ==
    IF RLe(v, xs[1]) THEN 0
    ELSE IF RLe(last(xs), v) THEN Len(as) - 1
    ELSE last(nonzero_lt(xs, v))

\* variant: xd <= x in place of xd < x
s3_k_Le(v, xs, as) ==
    IF RLe(v, xs[1]) THEN 0
    ELSE IF RLe(last(xs), v) THEN Len(as) - 1
    ELSE Cardinality({ i \in 1..Len(xs) : RLe(xs[i], v) }) - 1

s3_k(v, xs, as) ==
    IF RLe(v, xs[1]) THEN 0
    ELSE IF RLe(last(xs), v) THEN Len(as) - 1
    ELSE last(nonzero_lt(xs, v))

\* line 105: a[k]+b[k]*(x-xd[k])
s1(v, xs, as, bs) ==
    LET kk == s1_k(v, xs, as)
    IN  RAdd(as[kk + 1], RMul(bs[kk + 1], RSub(v, xs[kk + 1])))

(***************************************************************************)
(* Shapes of the arrays built for order 2 (lines 109-116) and order 3      *)
(* (lines 125-137).  Only the shapes are modelled: they decide whether the *)
(* construction succeeds; the values of c, d and b of these two orders are *)
(* not part of the model.  A shape is a tuple of extents; an operation on  *)
(* shapes that numpy rejects yields the error it raises.                   *)
(***************************************************************************)
Ok(shape) == [err |-> "none", shape |-> shape]
Err(e) == [err |-> e, shape |-> << >>]
IsError(r) == r.err # "none"

\* length of s[lo:hi] for a sequence of length n (Python slice, lo >= 0;
\* hi < 0 counts from the end)
SliceLen(n, lo, hi) ==
    LET stop == IF hi < 0 THEN (IF n + hi < 0 THEN 0 ELSE n + hi)
                ELSE (IF hi > n THEN n ELSE hi)
        start == IF lo > n THEN n ELSE lo
    IN  IF stop > start THEN stop - start ELSE 0

\* np.diag of a 1-D array
diag_shape(r) == IF IsError(r) THEN r ELSE Ok(<< r.shape[1], r.shape[1] >>)

\* np.hstack of two 2-D arrays
hstack_shape(r, t) ==
    IF IsError(r) THEN r ELSE IF IsError(t) THEN t
    ELSE IF r.shape[1] = t.shape[1]
         THEN Ok(<< r.shape[1], r.shape[2] + t.shape[2] >>)
         ELSE Err(ErrBroadcast)

\* np.vstack of two 2-D arrays
vstack_shape(r, t) ==
    IF IsError(r) THEN r ELSE IF IsError(t) THEN t
    ELSE IF r.shape[2] = t.shape[2]
         THEN Ok(<< r.shape[1] + t.shape[1], r.shape[2] >>)
         ELSE Err(ErrBroadcast)

\* elementwise operation on two arrays of the same number of dimensions
\* (also the in-place form, where the result must have the left shape)
add_shape(r, t) ==
    IF IsError(r) THEN r ELSE IF IsError(t) THEN t
    ELSE IF r.shape = t.shape THEN r ELSE Err(ErrBroadcast)

\* assignment of m values to a 1-D slice of the given length
setitem(len, m) == IF m = len \/ m = 1 THEN Ok(<< len >>) ELSE Err(ErrBroadcast)

\* subscript i (0-based, negative from the end) of a sequence of length n
getitem(n, i) ==
    IF (i >= 0 /\ i < n) \/ (i < 0 /\ n + i >= 0) THEN Ok(<< >>) ELSE Err(ErrIndex)

RECURSIVE FirstError(_)
FirstError(steps) ==
    IF steps = << >> THEN "none"
    ELSE IF IsError(Head(steps)) THEN Head(steps).err
    ELSE FirstError(Tail(steps))

\* lines 109-116, for len(xd) = n: the error raised, "none" if there is none
Order2Build(n) ==
    LET m == n - 1                          \* len(dx) = len(f1)
        A0 == hstack_shape(diag_shape(Ok(<< SliceLen(m, 0, 0 - 1) >>)),
                           Ok(<< n - 2, 1 >>))
        A1 == hstack_shape(Ok(<< n - 2, 1 >>),
                           diag_shape(Ok(<< SliceLen(m, 1, m) >>)))
        Am == vstack_shape(Ok(<< 1, n - 1 >>), add_shape(A0, A1))
        L112 == IF IsError(Am) THEN Am ELSE setitem(SliceLen(Am.shape[2], 0, 2), 2)
        L114 == setitem(SliceLen(m, 1, m), m - 1)
        \* np.linalg.solve: A square with as many rows as B has entries
        L115 == IF IsError(Am) THEN Am
                ELSE IF Am.shape[1] = Am.shape[2] /\ Am.shape[1] = m THEN Am
                ELSE Err(ErrBroadcast)
        L116 == add_shape(Ok(<< m >>), add_shape(Ok(<< m >>), Ok(<< m >>)))
    IN  FirstError(<< A0, A1, Am, L112, L114, L115, L116 >>)

\* lines 125-137, for len(xd) = n
Order3Build(n) ==
    LET m == n - 1                          \* len(dx) = len(f1)
        inner == SliceLen(n, 1, 0 - 1)      \* extent of 1:-1
        head == Ok(<< SliceLen(m, 0, 0 - 1) >>)   \* dx[:-1]
        tail == Ok(<< SliceLen(m, 1, m) >>)       \* dx[1:]
        L126 == add_shape(Ok(<< inner, SliceLen(n, 1, 0 - 1) >>),
                          diag_shape(add_shape(head, tail)))
        L127 == add_shape(Ok(<< inner, SliceLen(n, 0, 0 - 2) >>), diag_shape(head))
        L128 == add_shape(Ok(<< inner, SliceLen(n, 2, n) >>), diag_shape(tail))
        L129 == FirstError(<< getitem(m, 1), getitem(m, 0),
                              setitem(SliceLen(n, 0, 3), 3) >>)
        L130 == FirstError(<< getitem(m, 0 - 1), getitem(m, 0 - 2),
                              setitem(SliceLen(n, IF n > 3 THEN n - 3 ELSE 0, n), 3) >>)
        L133 == setitem(SliceLen(n, 1, 0 - 1), m - 1)
        \* line 135: gauss_iter_solve(A, B) with the default x0, tol and alg
        L135 == GaussCheck(seidel, [shape |-> << n, n >>, rows |-> << >>],
                           [shape |-> << n >>, data |-> << >>])
        \* lines 136-137: np.diff(c)/(3.0*dx) and f1-c[:-1]*dx-d*dx**2
        L136 == add_shape(Ok(<< n - 1 >>), Ok(<< m >>))
        L137 == add_shape(Ok(<< m >>), add_shape(Ok(<< SliceLen(n, 0, 0 - 1) >>), Ok(<< m >>)))
    IN  FirstError(<< L126, L127, L128, Err(L129), Err(L130), L133, Err(L135),
                      L136, L137 >>)

(***************************************************************************)
(* Initial states: the arguments of one call.                              *)
(***************************************************************************)
SolverIdle ==
    /\ A = NoMatrix /\ b = NoArray /\ x0 = None /\ tol = <<0, 1>> /\ alg = None
    /\ x = None /\ x_old = None /\ A_star = None /\ b_star = None /\ A_s = None
    /\ N = 0 /\ eps_a = NoQuotient

InitSolve ==
    /\ call = "gauss_iter_solve"
    /\ \E s \in Systems :
          /\ A = s.A
          /\ b = s.b
          /\ x0 \in X0Inputs(s.b.shape[1])
    /\ tol \in TolInputs
    /\ alg \in AlgInputs
    /\ x = None /\ x_old = None /\ A_star = None /\ b_star = None /\ A_s = None
    /\ N = 0 /\ eps_a = NoQuotient

(***************************************************************************)
(* gauss_iter_solve: the actions.                                          *)
(***************************************************************************)
\* lines 18-34
GaussValidate ==
    /\ call = "gauss_iter_solve" /\ pc = "start"
    /\ x' = InitialGuess(x0, b)
    /\ LET err == GaussCheck(alg, A, b)
       IN  IF err # "none"
           THEN /\ raised' = err
                /\ pc' = "raised"
           ELSE /\ raised' = raised
                /\ pc' = "normalize"
    /\ UNCHANGED << call, returned, A, b, x0, tol, alg, x_old, A_star, b_star,
                    A_s, N, eps_a >>
    /\ UNCHANGED splineVars

\* lines 36-50
GaussNormalize ==
    /\ call = "gauss_iter_solve" /\ pc = "normalize"
    /\ LET n == A.shape[1]
           identity == eye(n)
       IN  /\ A_star' = NormalizeMatrix(A)
           /\ b_star' = NormalizeVector(A, b)
           /\ A_s' = MatSub(NormalizeMatrix(A), identity)
    /\ N' = 0
    /\ eps_a' = TwiceTol(tol)
    /\ pc' = "loop"
    /\ UNCHANGED << call, raised, returned, A, b, x0, tol, alg, x, x_old >>
    /\ UNCHANGED splineVars

\* lines 52-58: one pass of the seidel loop
SeidelIter ==
    /\ call = "gauss_iter_solve" /\ pc = "loop"
    /\ lower(strip(alg)) = seidel
    /\ LoopCond(N, eps_a, tol)
    /\ x_old' = x
    /\ x' = SeidelSweep(x, 1, A_star, b_star)
    /\ N' = N + 1
    /\ eps_a' = RelChange(VecSub(x', x_old'), x')
    /\ UNCHANGED << call, pc, raised, returned, A, b, x0, tol, alg, A_star,
                    b_star, A_s >>
    /\ UNCHANGED splineVars

\* lines 61-66: one pass of the jacobi loop
JacobiIter ==
    /\ call = "gauss_iter_solve" /\ pc = "loop"
    /\ lower(strip(alg)) # seidel
    /\ LoopCond(N, eps_a, tol)
    /\ x_old' = x
    /\ x' = JacobiUpdate(x, A_s, b_star)
    /\ N' = N + 1
    /\ eps_a' = RelChange(VecSub(x', x_old'), x')
    /\ UNCHANGED << call, pc, raised, returned, A, b, x0, tol, alg, A_star,
                    b_star, A_s >>
    /\ UNCHANGED splineVars

\* lines 67-69, taken when the loop condition is false
GaussReturn ==
    /\ call = "gauss_iter_solve" /\ pc = "loop"
    /\ ~LoopCond(N, eps_a, tol)
    /\ IF N > max_iter
       THEN /\ raised' = WarnConverge
            /\ returned' = returned
            /\ pc' = "raised"
       ELSE /\ raised' = raised
            /\ returned' = "x"
            /\ pc' = "returned"
    /\ UNCHANGED << call, A, b, x0, tol, alg, x, x_old, A_star, b_star, A_s,
                    N, eps_a >>
    /\ UNCHANGED splineVars

(***************************************************************************)
(* spline_function: the actions.                                           *)
(***************************************************************************)
\* lines 84-88
SplineValidate ==
    /\ call = "spline_function" /\ pc = "start"
    /\ LET err == SplineCheck(xd_arg, yd_arg)
       IN  IF err # "none"
           THEN /\ raised' = err
                /\ pc' = "raised"
           ELSE /\ raised' = raised
                /\ pc' = "sort"
    /\ UNCHANGED << call, returned >>
    /\ UNCHANGED solverVars
    /\ UNCHANGED splineVars

\* lines 90-97
SplineSort ==
    /\ call = "spline_function" /\ pc = "sort"
    /\ k_sort' = argsort(xd_arg)
    /\ xd' = take(xd_arg, k_sort')
    /\ yd' = take(yd_arg, k_sort')
    /\ a' = init(yd')
    /\ dx' = diff(xd')
    /\ f1' = quot(diff(yd'), dx')
    /\ pc' = "order"
    /\ UNCHANGED << call, raised, returned, xd_arg, yd_arg, order, coef_b, q, k,
                    sval >>
    /\ UNCHANGED solverVars

\* lines 99-100 and 106
SplineOrder1 ==
    /\ call = "spline_function" /\ pc = "order"
    /\ order = 1
    /\ coef_b' = f1
    /\ returned' = "s1"
    /\ pc' = "returned"
    /\ UNCHANGED << call, raised, xd_arg, yd_arg, order, xd, yd, k_sort, a, dx,
                    f1, q, k, sval >>
    /\ UNCHANGED solverVars

\* lines 108-116 and 122
SplineOrder2 ==
    /\ call = "spline_function" /\ pc = "order"
    /\ order = 2
    /\ LET err == Order2Build(Len(xd))
       IN  IF err # "none"
           THEN /\ raised' = err
                /\ returned' = returned
                /\ pc' = "raised"
           ELSE /\ raised' = raised
                /\ returned' = "s2"
                /\ pc' = "returned"
    /\ UNCHANGED call
    /\ UNCHANGED splineVars
    /\ UNCHANGED solverVars

\* lines 124-137 and 143
SplineOrder3 ==
    /\ call = "spline_function" /\ pc = "order"
    /\ order = 3
    /\ LET err == Order3Build(Len(xd))
       IN  IF err # "none"
           THEN /\ raised' = err
                /\ returned' = returned
                /\ pc' = "raised"
           ELSE /\ raised' = raised
                /\ returned' = "s3"
                /\ pc' = "returned"
    /\ UNCHANGED call
    /\ UNCHANGED splineVars
    /\ UNCHANGED solverVars

\* lines 145-146: the else branch returns the exception object
SplineOrderElse ==
    /\ call = "spline_function" /\ pc = "order"
    /\ order \notin {1, 2, 3}
    /\ returned' = InvalidOrder
    /\ pc' = "returned"
    /\ UNCHANGED << call, raised, xd_arg, yd_arg, order, xd, yd, k_sort, a, dx,
                    f1, coef_b, q, k, sval >>
    /\ UNCHANGED solverVars

\* one call of the returned closure, lines 101-105, 117-121, 138-142 (the
\* closure reads its captured arrays only, so a second call repeats the first)
Evaluate ==
    /\ call = "spline_function" /\ pc = "returned"
    /\ returned \in {"s1", "s2", "s3"}
    /\ \E v \in Queries :
          /\ q' = v
          /\ k' = CASE returned = "s1" -> s1_k(v, xd, a)
                    [] returned = "s2" -> s2_k(v, xd, a)
                    [] returned = "s3" -> s3_k(v, xd, a)
          /\ sval' = IF returned = "s1" THEN s1(v, xd, a, coef_b) ELSE sval
    /\ pc' = "evaluated"
    /\ UNCHANGED << call, raised, returned, xd_arg, yd_arg, order, xd, yd,
                    k_sort, a, dx, f1, coef_b >>
    /\ UNCHANGED solverVars

InitSpline ==
    /\ call = "spline_function"
    /\ xd_arg \in XInputs
    /\ yd_arg \in YInputs
    /\ order \in OrderInputs
    /\ xd = None /\ yd = None
    /\ k_sort = None /\ a = None /\ dx = None /\ f1 = None /\ coef_b = None
    /\ q = <<0, 1>> /\ k = 0 /\ sval = <<0, 1>>

SplineIdle ==
    /\ xd_arg = None /\ yd_arg = None /\ xd = None /\ yd = None /\ order = 0 /\ k_sort = None /\ a = None
    /\ dx = None /\ f1 = None /\ coef_b = None /\ q = <<0, 1>> /\ k = 0
    /\ sval = <<0, 1>>

Init ==
    /\ pc = "start" /\ raised = "none" /\ returned = "none"
    /\ \/ InitSolve /\ SplineIdle
       \/ InitSpline /\ SolverIdle

Next ==
    \/ GaussValidate
    \/ GaussNormalize
    \/ SeidelIter
    \/ JacobiIter
    \/ GaussReturn
    \/ SplineValidate
    \/ SplineSort
    \/ SplineOrder1
    \/ SplineOrder2
    \/ SplineOrder3
    \/ SplineOrderElse
    \/ Evaluate

Spec == Init /\ [][Next]_vars

(***************************************************************************)
(* Properties.                                                             *)
(***************************************************************************)
Done == pc \in {"returned", "raised", "evaluated"}
InSolve == call = "gauss_iter_solve"
InSpline == call = "spline_function"

\* nothing of lines 36-66 has run
NoSolverWork ==
    /\ A_star = None /\ b_star = None /\ A_s = None /\ x_old = None
    /\ N = 0 /\ eps_a = NoQuotient

\* nothing of lines 90-97 has run
NoSplineWork ==
    /\ k_sort = None /\ xd = None /\ yd = None /\ a = None /\ dx = None
    /\ f1 = None

HasRepeat(s) == \E i, j \in 1..Len(s) : i < j /\ s[i] = s[j]
ValidSamples == Len(xd_arg) = Len(yd_arg) /\ ~HasRepeat(xd_arg)

\* C1: a call of gauss_iter_solve that used all 100 iterations with the
\* relative change of the last one still above tol ends with the
\* RuntimeWarning raised, never with an ordinary return of x.
C1_CapSignalled ==
    (InSolve /\ Done /\ N = max_iter /\ GT(eps_a, tol))
        => (raised = WarnConverge /\ returned = "none")

\* C2: on valid samples an order outside {1, 2, 3} makes spline_function
\* raise the invalid-order error; the caller gets no return value.
C2_InvalidOrderRaised ==
    (InSpline /\ Done /\ ValidSamples /\ order \notin {1, 2, 3})
        => (raised = InvalidOrder /\ returned = "none")

\* C3: on valid samples with N >= 2 and order 1, 2 or 3 the construction
\* succeeds and spline_function returns the evaluator of that order.
C3_BuildSucceeds ==
    (InSpline /\ Done /\ ValidSamples /\ Len(xd_arg) >= 2 /\ order \in {1, 2, 3})
        => /\ raised = "none"
           /\ returned = CASE order = 1 -> "s1" [] order = 2 -> "s2" [] order = 3 -> "s3"

\* C4 as stated: a non-square A makes gauss_iter_solve fail with the
\* non-square error whatever b, x0, tol and alg are, before the normalization
\* and before any iteration.
C4_NonSquareAlways ==
    (InSolve /\ pc # "start" /\ A.shape[1] # A.shape[2])
        => (pc = "raised" /\ raised = ErrSquare /\ NoSolverWork)

\* C4 amended: a non-square A makes gauss_iter_solve fail before the
\* normalization and before any iteration, whatever b, x0 and tol are: with
\* the non-square error when alg is seidel or jacobi (after strip and
\* lower), with the invalid-algorithm error otherwise.
C4_NonSquareRejected ==
    (InSolve /\ pc # "start" /\ A.shape[1] # A.shape[2])
        => /\ pc = "raised" /\ returned = "none"
           /\ raised = IF lower(strip(alg)) \in {seidel, jacobi}
                       THEN ErrSquare ELSE ErrAlg
           /\ NoSolverWork

C4_Witness ==
    /\ InSolve /\ pc = "raised" /\ raised = ErrSquare
    /\ A.shape = <<2, 3>> /\ Len(b.shape) = 2 /\ x0 # None
    /\ alg # seidel /\ alg # jacobi

\* C5: equal-length samples with a repeated x-value make spline_function
\* raise the repetition error for every order, and no evaluator is returned.
C5_RepeatRejected ==
    (InSpline /\ pc # "start" /\ Len(xd_arg) = Len(yd_arg) /\ HasRepeat(xd_arg))
        => (pc = "raised" /\ raised = ErrRepeat /\ returned = "none")

C5_Witness ==
    /\ InSpline /\ pc = "raised" /\ raised = ErrRepeat
    /\ order \notin {1, 2, 3}
    /\ Len(xd_arg) = 3 /\ xd_arg[1] = xd_arg[3] /\ xd_arg[1] # xd_arg[2]

\* C6: every structural or argument failure of either function is reported
\* before any numeric work of the call: no normalization or iteration in the
\* solver, no sorting, differencing or slope division in the spline builder.
C6_FailFast ==
    /\ raised \in {ErrAlg, ErrSquare, ErrDimB} => NoSolverWork
    /\ raised \in {ErrLen, ErrRepeat} => NoSplineWork
    /\ (raised = InvalidOrder \/ returned = InvalidOrder) => NoSplineWork

\* C7: the order-1 evaluator, at the x-value of any sample, returns the
\* y-value passed with that x-value, whatever the order of the samples; the
\* first knot is served by interval 0 and every other knot by the interval
\* to its left; and between the samples (0,0) and (1,1) it gives 1/2 at 1/2.
C7_KnotValue ==
    (InSpline /\ pc = "evaluated" /\ returned = "s1")
        => /\ \A j \in 1..Len(xd_arg) :
                q = Rat(xd_arg[j], 1) => sval = Rat(yd_arg[j], 1)
           /\ \A j \in 1..Len(xd) :
                q = xd[j] => k = IF j = 1 THEN 0 ELSE j - 2
           /\ (/\ q = <<1, 2>>
               /\ \E i, j \in 1..Len(xd_arg) :
                     /\ xd_arg[i] = 0 /\ yd_arg[i] = 0
                     /\ xd_arg[j] = 1 /\ yd_arg[j] = 1)
                 => sval = <<1, 2>>

C7_Witness ==
    /\ InSpline /\ pc = "evaluated" /\ returned = "s1"
    /\ xd_arg = <<2, 0, 1>> /\ yd_arg = <<0, 0, 1>>
    /\ q = <<1, 1>> /\ sval = <<1, 1>> /\ k = 0

\* C8: for each of the three evaluators the interval index k is in 0..N-2:
\* 0 for a query at or below the first knot, N-2 for a query at or above the
\* last knot, otherwise the largest index whose knot is below the query; and
\* s1, s2 and s3 choose the same k for the same knots and query.
C8_IntervalIndex ==
    (InSpline /\ pc = "evaluated")
        => LET n == Len(xd)
           IN  /\ k \in 0..(n - 2)
               /\ RLe(q, xd[1]) => k = 0
               /\ RLe(xd[n], q) => k = n - 2
               /\ (RLt(xd[1], q) /\ RLt(q, xd[n]))
                    => /\ RLt(xd[k + 1], q)
                       /\ \A j \in 1..n : RLt(xd[j], q) => j - 1 <= k
               /\ s1_k(q, xd, a) = s2_k(q, xd, a)
               /\ s2_k(q, xd, a) = s3_k(q, xd, a)

C8_Witness ==
    /\ InSpline /\ pc = "evaluated" /\ returned = "s3"
    /\ Len(xd) = 3 /\ RLt(xd[3], q) /\ k = 1

\* C9 as stated: N never exceeds 100 and on exit of the loop either N = 100
\* or the last relative change is at or below tol.
C9_ExitBelowTol ==
    InSolve => /\ N <= max_iter
               /\ pc = "returned" => (N = max_iter \/ LE(eps_a, tol))

\* C9 amended: the loop terminates (N grows by one with each pass and never
\* exceeds 100); it goes on exactly while N < 100 and eps_a > tol, so on
\* exit either N = 100 or eps_a is not above tol: at or below it, or NaN
\* (for example the relative change 0/0 of an all-zero iterate).
C9_State ==
    InSolve => /\ N \in 0..max_iter
               /\ pc = "returned" => (N = max_iter \/ ~GT(eps_a, tol))
               /\ pc = "returned" => (N = max_iter \/ LE(eps_a, tol) \/ eps_a.kind = "nan")

C9_Step ==
    (InSolve /\ pc = "loop")
        => IF N < max_iter /\ GT(eps_a, tol)
           THEN pc' = "loop" /\ N' = N + 1
           ELSE pc' = "returned" /\ N' = N /\ x' = x

C9_LoopExit == []C9_State /\ [][C9_Step]_vars

C9_Witness ==
    /\ InSolve /\ pc = "returned" /\ N = 1 /\ eps_a.kind = "nan"
    /\ tol = <<1, 1000>>

\* C10: one pass of the loop on the normalized system.  Under jacobi every
\* component is b*[i] minus the sum over j # i of A*[i][j] times the previous
\* iterate; under seidel it is b*[i] minus the sum over j < i of A*[i][j]
\* times the new x[j] minus the sum over j > i of A*[i][j] times the previous
\* x[j]; x_old is the whole iterate from before the pass and eps_a is taken
\* from x - x_old.
PartialSum(row, v, J) == SeqSum([j \in 1..Len(row) |-> IF j \in J THEN row[j] * v[j] ELSE 0])

C10_Pass ==
    (InSolve /\ pc = "loop" /\ N' = N + 1)
        => LET n == Len(x)
           IN  /\ x_old' = x
               /\ \A i \in 1..n :
                    x'[i] = IF lower(strip(alg)) = seidel
                            THEN b_star[i] - PartialSum(A_star[i], x', 1..(i - 1))
                                           - PartialSum(A_star[i], x, (i + 1)..n)
                            ELSE b_star[i] - PartialSum(A_star[i], x, (1..n) \ {i})
               /\ eps_a' = RelChange([i \in 1..n |-> x'[i] - x[i]], x')

C10_Sweep == [][C10_Pass]_vars

C10_Witness ==
    /\ InSolve /\ pc = "loop" /\ N = 1 /\ lower(strip(alg)) = seidel
    /\ Len(x) = 3 /\ A_star[2][1] # 0 /\ A_star[2][3] # 0
    /\ x_old[1] # x[1] /\ x_old[3] # x[3]
    /\ x # JacobiUpdate(x_old, A_s, b_star)

====
